---- MODULE Spec2Model ----
(***************************************************************************)
(* PrinterMatiasERP (src/main.go): the print orchestration pipeline.       *)
(*                                                                         *)
(* A worker handles one HTTP request at a time: /print (PrintHandler ->    *)
(* PrintPDFFromURL -> PrinterExists, url.ParseRequestURI, downloadFile,    *)
(* PrintFile, deferred os.Remove), /open-box (OpenDrawerHandler ->         *)
(* OpenDrawer) and /list-printers (ListPrintersHandler -> GetPrinters).    *)
(*                                                                         *)
(* Strings the code inspects (enumeration lines, printer names, URLs) are  *)
(* sequences of one-character strings, so that strings.Contains,           *)
(* strings.Split, strings.SplitN, strings.TrimSpace and the URL parser     *)
(* are computed the way the code computes them.                            *)
(***************************************************************************)
EXTENDS Integers, Sequences, FiniteSets, TLC

\* ------------------------------------------------------------------ bounds

\* Most printers installed on the host at once.
MaxPrinters == 2

\* Most temporary files the temp directory holds at once.
MaxFiles == 2

\* Workers (goroutines of net/http) that may handle requests.
NumProcs == 2

Procs == 1..NumProcs

\* ----------------------------------------------------------- string library

Space == {" ", "\t", "\r", "\n"}

\* strings.HasPrefix
HasPrefix(s, pre) == Len(s) >= Len(pre) /\ SubSeq(s, 1, Len(pre)) = pre

\* sub occurs in s at position i.
MatchAt(s, sub, i) == \A k \in 1..Len(sub) : s[i + k - 1] = sub[k]

\* The first position from i on where sub occurs in s, 0 when there is none.
RECURSIVE IndexFrom(_, _, _)
IndexFrom(s, sub, i) ==
    IF i > Len(s) - Len(sub) + 1 THEN 0
    ELSE IF MatchAt(s, sub, i) THEN i
    ELSE IndexFrom(s, sub, i + 1)

\* The last position up to i where sub occurs in s, 0 when there is none.
RECURSIVE IndexBack(_, _, _)
IndexBack(s, sub, i) ==
    IF i < 1 THEN 0
    ELSE IF MatchAt(s, sub, i) THEN i
    ELSE IndexBack(s, sub, i - 1)

\* strings.Index: the first position of sub in s, 0 when absent (1-based).
Index(s, sub) == IndexFrom(s, sub, 1)

\* strings.LastIndex
LastIndex(s, sub) == IndexBack(s, sub, Len(s) - Len(sub) + 1)

\* strings.Contains
Contains(s, sub) == Index(s, sub) # 0

\* strings.Split(s, sep) for a one-character separator: always at least one part.
RECURSIVE Split(_, _)
Split(s, sep) ==
    LET i == Index(s, <<sep>>)
    IN  IF i = 0 THEN <<s>>
        ELSE <<SubSeq(s, 1, i - 1)>> \o Split(SubSeq(s, i + 1, Len(s)), sep)

\* strings.SplitN(s, sep, 2): cut at the first separator only.
SplitN2(s, sep) ==
    LET i == Index(s, <<sep>>)
    IN  IF i = 0 THEN <<s>>
        ELSE <<SubSeq(s, 1, i - 1), SubSeq(s, i + 1, Len(s))>>

\* The first position from i on, or the last up to i, that holds no space.
RECURSIVE FirstInk(_, _)
FirstInk(s, i) == IF i > Len(s) \/ s[i] \notin Space THEN i ELSE FirstInk(s, i + 1)

RECURSIVE LastInk(_, _)
LastInk(s, i) == IF i < 1 \/ s[i] \notin Space THEN i ELSE LastInk(s, i - 1)

\* strings.TrimSpace
TrimSpace(s) == SubSeq(s, FirstInk(s, 1), LastInk(s, Len(s)))

LowerSeq == <<"a","b","c","d","e","f","g","h","i","j","k","l","m",
              "n","o","p","q","r","s","t","u","v","w","x","y","z">>
UpperSeq == <<"A","B","C","D","E","F","G","H","I","J","K","L","M",
              "N","O","P","Q","R","S","T","U","V","W","X","Y","Z">>
Letters == {LowerSeq[i] : i \in 1..26} \cup {UpperSeq[i] : i \in 1..26}
Digits == {"0","1","2","3","4","5","6","7","8","9"}

\* strings.ToLower
ToLower(s) ==
    [i \in 1..Len(s) |->
        IF \E k \in 1..26 : UpperSeq[k] = s[i]
        THEN LowerSeq[CHOOSE k \in 1..26 : UpperSeq[k] = s[i]]
        ELSE s[i]]

\* -------------------------------------------------- the host's printers

\* Keys of the line PowerShell prints for each printer (main.go:208).
KName == <<"N","a","m","e">>
KDriverName == <<"D","r","i","v","e","r">> \o KName
KPortName == <<"P","o","r","t">> \o KName
KPrinterStatus == <<"P","r","i","n","t","e","r","S","t","a","t","u","s">>
KLocation == <<"L","o","c","a","t","i","o","n">>

HP == <<"H","P">>
HP2 == <<"H","P","2">>
Ghost == <<"G","h","o","s","t">>
Generic == <<"G","e","n">>

\* Printers a host may have installed. The second has a Location holding an
\* '='; the third has one holding a ';', which makes its enumeration line
\* end in a token without '='.
HostPrinters ==
    { [Name |-> HP,  DriverName |-> Generic, Location |-> <<>>],
      [Name |-> HP2, DriverName |-> Ghost,   Location |-> <<"R","=","1">>],
      [Name |-> HP2, DriverName |-> HP,      Location |-> <<"a",";","b">>] }

\* Further printers, for the listing: a Location with a second key=value
\* token, one ending the line in an empty token, a Name holding an '=', and
\* a Location that repeats the key Name.
ListedPrinters ==
    HostPrinters \cup
    { [Name |-> <<"E","P">>, DriverName |-> Generic, Location |-> <<"a",";","b","=","c">>],
      [Name |-> HP, DriverName |-> HP, Location |-> <<";">>],
      [Name |-> <<"N","=","1">>, DriverName |-> Generic, Location |-> <<>>],
      [Name |-> HP2, DriverName |-> Generic,
       Location |-> <<"x",";">> \o KName \o <<"=","Z">>] }

PortValue == <<"U","S","B">>
StatusValue == <<"N","o","r","m","a","l">>

\* The ForEach-Object format string of the Get-Printer command (main.go:208).
FormatPrinter(r) ==
    KName \o <<"=">> \o r.Name \o <<";">>
    \o KDriverName \o <<"=">> \o r.DriverName \o <<";">>
    \o KPortName \o <<"=">> \o PortValue \o <<";">>
    \o KPrinterStatus \o <<"=">> \o StatusValue \o <<";">>
    \o KLocation \o <<"=">> \o r.Location

\* What PowerShell writes for a list of printers: one line each, ended by CRLF.
RECURSIVE CommandOutput(_)
CommandOutput(rs) ==
    IF rs = <<>> THEN <<>>
    ELSE FormatPrinter(rs[1]) \o <<"\r", "\n">> \o CommandOutput(Tail(rs))

\* ListPrinters, after a successful cmd.Run: the trimmed non-blank lines.
RECURSIVE NonBlank(_)
NonBlank(lines) ==
    IF lines = <<>> THEN <<>>
    ELSE LET t == TrimSpace(lines[1])
         IN  (IF t # <<>> THEN <<t>> ELSE <<>>) \o NonBlank(Tail(lines))

ListPrinters(output) == NonBlank(Split(output, "\n"))

\* PrinterExists, given the lines ListPrinters returned.
PrinterExists(lines, name) ==
    \E i \in 1..Len(lines) : Contains(lines[i], KName \o <<"=">> \o name \o <<";">>)

\* ------------------------------------------------ parsePrinterDetails

EmptyMap == <<>>

\* The loop of parsePrinterDetails over the ';'-separated properties: a
\* property without '=' ends it with an error, a repeated key is overwritten.
RECURSIVE ParseProps(_, _)
ParseProps(props, printerMap) ==
    IF props = <<>> THEN [ok |-> TRUE, map |-> printerMap]
    ELSE LET kv == SplitN2(props[1], "=")
         IN  IF Len(kv) # 2 THEN [ok |-> FALSE, map |-> EmptyMap]
             ELSE ParseProps(Tail(props), (kv[1] :> kv[2]) @@ printerMap)

parsePrinterDetails(details) == ParseProps(Split(details, ";"), EmptyMap)

\* ParseLines ending the listing at the first line that does not parse.
RECURSIVE ParseLinesAbort(_, _)
ParseLinesAbort(printerStrings, acc) ==
    IF printerStrings = <<>> THEN acc
    ELSE LET d == parsePrinterDetails(printerStrings[1])
         IN  IF d.ok
             THEN ParseLinesAbort(Tail(printerStrings),
                                  [acc EXCEPT !.printers = Append(@, d.map)])
             ELSE [acc EXCEPT !.logged = @ + 1]

\* The loop of GetPrinters over the lines of ListPrinters: a line that does
\* not parse is logged and skipped.
RECURSIVE ParseLines(_, _)
ParseLines(printerStrings, acc) ==
    IF printerStrings = <<>> THEN acc
    ELSE LET d == parsePrinterDetails(printerStrings[1])
         IN  ParseLines(Tail(printerStrings),
                 IF d.ok THEN [acc EXCEPT !.printers = Append(@, d.map)]
                 ELSE [acc EXCEPT !.logged = @ + 1])

\* GetPrinters after a successful ListPrinters.
GetPrinters(printerStrings) == ParseLines(printerStrings, [printers |-> <<>>, logged |-> 0])

\* ------------------------------------------------ url.ParseRequestURI

\* Request URLs are strings over letters, digits and these characters; the
\* parser below is url.ParseRequestURI restricted to that alphabet (no '%',
\* '?', '#', '@', '[').
SchemeExtra == {"+", "-", "."}
HostPunct == {"-", "_", ".", "~", "!", "$", "&", "'", "(", ")", "*", "+", ",", ";", "=", ":"}

\* getScheme: letters, then letters/digits/+-. up to the first ':'.
getScheme(rawURL) ==
    LET stop == {i \in 1..Len(rawURL) :
                    /\ rawURL[i] \notin Letters
                    /\ ~(rawURL[i] \in (Digits \cup SchemeExtra) /\ i > 1)}
        i == CHOOSE k \in stop : \A j \in stop : k <= j
    IN  IF stop = {} THEN [ok |-> TRUE, scheme |-> <<>>, rest |-> rawURL]
        ELSE IF rawURL[i] = ":"
             THEN IF i = 1 THEN [ok |-> FALSE, scheme |-> <<>>, rest |-> <<>>]
                  ELSE [ok |-> TRUE, scheme |-> SubSeq(rawURL, 1, i - 1),
                        rest |-> SubSeq(rawURL, i + 1, Len(rawURL))]
             ELSE [ok |-> TRUE, scheme |-> <<>>, rest |-> rawURL]

\* validOptionalPort: "" or ':' followed by digits only.
validOptionalPort(port) ==
    \/ port = <<>>
    \/ /\ port[1] = ":"
       /\ \A i \in 2..Len(port) : port[i] \in Digits

\* parseHost: the port after the last ':' must be numeric, and every byte
\* of the host must be one that needs no escaping in a host.
parseHost(host) ==
    LET i == LastIndex(host, <<":">>)
    IN  /\ (i # 0 => validOptionalPort(SubSeq(host, i, Len(host))))
        /\ \A k \in 1..Len(host) : host[k] \in (Letters \cup Digits \cup HostPunct)

\* url.ParseRequestURI (parse with viaRequest = true).
ParseRequestURI(rawURL) ==
    LET Fail(m) == [ok |-> FALSE, scheme |-> <<>>, err |-> m]
        Pass(sc) == [ok |-> TRUE, scheme |-> sc, err |-> ""]
        gs == getScheme(rawURL)
        scheme == ToLower(gs.scheme)
        rest == gs.rest
        slash == Index(SubSeq(rest, 3, Len(rest)), <<"/">>)
        authority == IF slash = 0 THEN SubSeq(rest, 3, Len(rest))
                     ELSE SubSeq(rest, 3, slash + 1)
    IN  IF \E i \in 1..Len(rawURL) : rawURL[i] \in {"\t", "\r", "\n"}
        THEN Fail("net/url: invalid control character in URL")
        ELSE IF rawURL = <<>> THEN Fail("empty url")
        ELSE IF rawURL = <<"*">> THEN Pass(<<>>)
        ELSE IF ~gs.ok THEN Fail("missing protocol scheme")
        ELSE IF ~HasPrefix(rest, <<"/">>)
             THEN IF scheme # <<>> THEN Pass(scheme)
                  ELSE Fail("invalid URI for request")
        ELSE IF scheme # <<>> /\ HasPrefix(rest, <<"/", "/">>) /\ ~parseHost(authority)
             THEN Fail("invalid host or port")
        ELSE Pass(scheme)

SchemeHTTP == <<"h","t","t","p">>
SchemeHTTPS == <<"h","t","t","p","s">>

\* URLs a request may carry.
RequestURLs ==
    { <<"h","t","t","p",":","/","/","x","/","d",".","p","d","f">>,
      <<"H","T","T","P","S",":","/","/","x",":","8","0","/","d">>,
      <<"f","i","l","e",":","/","/","/","e","t","c","/","p","a","s","s","w","d">>,
      <<"f","t","p",":","/","/","x","/","a",".","p","d","f">>,
      <<"/","d",".","p","d","f">>,
      <<"n","o","t"," ","a"," ","u","r","l">>,
      <<"h","t","t","p",":","/","/","a"," ","b","/","d">>,
      <<":","/","/","x">> }

\* Printer names a request may carry.
RequestPrinters == {HP, Ghost}

\* ------------------------------------------------------------ error values

\* An error is its text (err.Error(), as a sequence of pieces; accents are
\* dropped) and the kind of its root cause.
Nil == [kind |-> "nil", msg |-> <<>>]
Pending == [kind |-> "pending", msg |-> <<>>]

\* fmt.Errorf(prefix + "%w", err)
Wrap(prefix, err) == [kind |-> err.kind, msg |-> <<prefix>> \o err.msg]

\* ListPrinters: cmd.Run failed (main.go:222).
ErrPowerShell == [kind |-> "EnumerationError", msg |-> <<"error ejecutando PowerShell">>]

\* PrinterExists wraps the error of ListPrinters (main.go:242).
ErrListing == Wrap("error al listar impresoras: ", ErrPowerShell)

\* main.go:336 and main.go:371
ErrNoExiste(printerName) ==
    [kind |-> "UnknownPrinter",
     msg |-> <<"la impresora '">> \o printerName \o <<"' no existe">>]

\* main.go:341
ErrURLInvalida(m) == [kind |-> "InvalidURL", msg |-> <<"URL invalida: ", m>>]

\* main.go:345
ErrEsquema(scheme) ==
    [kind |-> "UnsupportedScheme", msg |-> <<"esquema de URL no soportado: ">> \o scheme]

\* downloadFile's errors, wrapped at main.go:350
ErrDescarga(cause) ==
    [kind |-> "FetchError", msg |-> <<"error al descargar el archivo: ", cause>>]

\* PrintFile's error (main.go:274), wrapped at main.go:359
ErrImprimir ==
    [kind |-> "PrintError",
     msg |-> <<"error al imprimir el archivo: ", "error al ejecutar PDFPrinter">>]

\* WindowsDrawerOpener.OpenDrawer's error (main.go:296), wrapped at main.go:375
ErrCajon ==
    [kind |-> "DrawerError",
     msg |-> <<"error al abrir el cajon: ", "error al ejecutar comando de apertura de cajon">>]

\* -------------------------------------------------------------- responses

\* WriteJSON: one response, a status and a JSON object.
WriteJSON(status, data) == [status |-> status, body |-> data]

\* WriteErrorJSON putting the text of err in "error".
WriteErrorJSONCauseOnly(status, message, err) ==
    WriteJSON(status, IF err # Nil THEN [error |-> err.msg] ELSE [error |-> <<message>>])

\* WriteErrorJSON: {"error": message} and, when err is not nil, "details".
WriteErrorJSON(status, message, err) ==
    WriteJSON(status,
        IF err # Nil THEN [error |-> <<message>>, details |-> err.msg]
        ELSE [error |-> <<message>>])

MsgPrinted == <<"PDF enviado a la impresora exitosamente.">>
MsgDrawer == <<"Cajon abierto exitosamente.">>

\* json.Decoder's error on a body that is not JSON.
ErrJSON == [kind |-> "BadJSON", msg |-> <<"invalid character">>]

\* --------------------------------------------------------------- the state

VARIABLES
    printers,   \* the printers installed on the host, in enumeration order
    files,      \* the temporary files that exist in the temp directory
    pc,         \* pc[p]: where worker p is in its request
    req,        \* req[p]: the request worker p is handling
    loc,        \* loc[p]: the locals of the service call of worker p
    cnt,        \* cnt[p]: the external effects of the request of worker p
    ret,        \* ret[p]: what the service call of worker p returned
    resp        \* resp[p]: the responses written for the request of worker p

vars == <<printers, files, pc, req, loc, cnt, ret, resp>>

FileNames == 1..MaxFiles

NoRequest == [op |-> "none", url |-> <<>>, printer |-> <<>>]

\* exists: the answer of PrinterExists ("none" before it, "error" when it
\* failed); created: the file os.CreateTemp made in downloadFile (0: none);
\* filePath: the path downloadFile returned (0: none); printed: the outcome
\* of PrintFile; listed: what GetPrinters returned.
NoLocals ==
    [exists |-> "none", created |-> 0, filePath |-> 0, printed |-> "none",
     listed |-> <<>>]

\* Processes started (enum: printer enumeration, print: the print tool,
\* drawer: the drawer command), HTTP GETs, os.CreateTemp and os.Remove
\* calls, and lines written with Logger.Errorf by the service.
NoEffects ==
    [enum |-> 0, get |-> 0, temp |-> 0, print |-> 0, drawer |-> 0,
     remove |-> 0, removeLog |-> 0, parseLog |-> 0]

\* Sequences of at most n elements of S.
SeqUpTo(S, n) == UNION {[1..k -> S] : k \in 0..n}

\* The state before the first request, for a given set of printers the
\* host may have.
Start(installable) ==
    /\ printers \in SeqUpTo(installable, MaxPrinters)
    /\ files = {}
    /\ pc = [p \in Procs |-> "idle"]
    /\ req = [p \in Procs |-> NoRequest]
    /\ loc = [p \in Procs |-> NoLocals]
    /\ cnt = [p \in Procs |-> NoEffects]
    /\ ret = [p \in Procs |-> Pending]
    /\ resp = [p \in Procs |-> <<>>]

Init == Start(HostPrinters)

InitList == Start(ListedPrinters)

\* A worker takes its next request once it has answered the last one.
Free(p) == pc[p] \in {"idle", "done"}

\* The handler answers without calling the service.
Reject(p, op, url, printer, response) ==
    /\ pc' = [pc EXCEPT ![p] = "done"]
    /\ req' = [req EXCEPT ![p] = [op |-> op, url |-> url, printer |-> printer]]
    /\ loc' = [loc EXCEPT ![p] = NoLocals]
    /\ cnt' = [cnt EXCEPT ![p] = NoEffects]
    /\ ret' = [ret EXCEPT ![p] = Pending]
    /\ resp' = [resp EXCEPT ![p] = <<response>>]
    /\ UNCHANGED <<printers, files>>

\* The handler calls the service with a decoded request.
Accept(p, op, url, printer, next) ==
    /\ pc' = [pc EXCEPT ![p] = next]
    /\ req' = [req EXCEPT ![p] = [op |-> op, url |-> url, printer |-> printer]]
    /\ loc' = [loc EXCEPT ![p] = NoLocals]
    /\ cnt' = [cnt EXCEPT ![p] = NoEffects]
    /\ ret' = [ret EXCEPT ![p] = Pending]
    /\ resp' = [resp EXCEPT ![p] = <<>>]
    /\ UNCHANGED <<printers, files>>

Methods == {"POST", "GET"}

\* ------------------------------------------------------------- /print

\* MissingFields looking at the url only.
MissingFieldsURLOnly(url, printer) == url = <<>>

\* The field check of PrintHandler (main.go:470).
MissingFields(url, printer) == url = <<>> \/ printer = <<>>

\* PrintHandler up to its call of PrintPDFFromURL (main.go:448-476). The
\* body is not JSON, or decodes to a url and a printer (an absent field
\* decodes to the empty string).
PrintHandler(p) ==
    /\ Free(p)
    /\ \E method \in Methods :
        IF method # "POST"
        THEN Reject(p, "print", <<>>, <<>>,
                    WriteErrorJSON(405, "Metodo HTTP no permitido", Nil))
        ELSE \E json \in BOOLEAN :
            IF ~json
            THEN Reject(p, "print", <<>>, <<>>,
                        WriteErrorJSON(400, "Solicitud JSON invalida", ErrJSON))
            ELSE \E url \in RequestURLs \cup {<<>>}, printer \in RequestPrinters \cup {<<>>} :
                IF MissingFields(url, printer)
                THEN Reject(p, "print", url, printer,
                            WriteErrorJSON(400, "URL o impresora no especificados", Nil))
                ELSE Accept(p, "print", url, printer, "verify")

\* PrintHandler after PrintPDFFromURL returned err (main.go:476-482).
PrintReturn(p, err) ==
    /\ pc' = [pc EXCEPT ![p] = "done"]
    /\ ret' = [ret EXCEPT ![p] = err]
    /\ resp' = [resp EXCEPT ![p] = Append(@,
                    IF err # Nil
                    THEN WriteErrorJSON(500, "Error al imprimir el archivo", err)
                    ELSE WriteJSON(200, [message |-> MsgPrinted]))]

\* The service call goes on to its next step.
Continue(p, next) ==
    /\ pc' = [pc EXCEPT ![p] = next]
    /\ UNCHANGED <<ret, resp>>

\* WindowsPrinterManager.PrinterExists: ListPrinters runs the enumeration
\* command, which fails or prints the host's printers.
ExistsAnswer(run, name) ==
    IF run = "fail" THEN "error"
    ELSE IF PrinterExists(ListPrinters(CommandOutput(printers)), name) THEN "true"
    ELSE "false"

\* ValidateURL without its scheme check: any URL that parses passes.
ValidateURLParseOnly(fileURL) ==
    LET parsed == ParseRequestURI(fileURL)
    IN  IF ~parsed.ok THEN ErrURLInvalida(parsed.err) ELSE Nil

\* The URL checks of PrintPDFFromURL (main.go:339-346).
ValidateURL(fileURL) ==
    LET parsed == ParseRequestURI(fileURL)
    IN  IF ~parsed.ok THEN ErrURLInvalida(parsed.err)
        ELSE IF parsed.scheme # SchemeHTTP /\ parsed.scheme # SchemeHTTPS
        THEN ErrEsquema(parsed.scheme)
        ELSE Nil

\* ValidatePrint going on to the URL checks when the printer is absent.
ValidatePrintSkipAbsent(answer, fileURL, printerName) ==
    IF answer = "error" THEN Wrap("error al verificar la impresora: ", ErrListing)
    ELSE ValidateURL(fileURL)

\* The checks of PrintPDFFromURL before the download (main.go:331-346).
ValidatePrint(answer, fileURL, printerName) ==
    IF answer = "error" THEN Wrap("error al verificar la impresora: ", ErrListing)
    ELSE IF answer = "false" THEN ErrNoExiste(printerName)
    ELSE ValidateURL(fileURL)

\* PrintPDFFromURL: the existence check, then the URL checks.
PrintValidate(p) ==
    /\ pc[p] = "verify"
    /\ \E run \in {"ok", "fail"} :
        LET answer == ExistsAnswer(run, req[p].printer)
            err == ValidatePrint(answer, req[p].url, req[p].printer)
        IN  /\ cnt' = [cnt EXCEPT ![p].enum = @ + 1]
            /\ loc' = [loc EXCEPT ![p].exists = answer]
            /\ IF err # Nil THEN PrintReturn(p, err) ELSE Continue(p, "get")
    /\ UNCHANGED <<printers, files, req>>

\* DownloadGet trying a failed GET a second time.
DownloadGetRetry(p) ==
    /\ pc[p] = "get"
    /\ cnt' = [cnt EXCEPT ![p].get = @ + 1]
    /\ \E outcome \in {"failed", "not200", "200"} :
        CASE outcome = "failed" ->
                IF cnt[p].get = 0 THEN Continue(p, "get")
                ELSE PrintReturn(p, ErrDescarga("Get: connection failed"))
          [] outcome = "not200" -> PrintReturn(p, ErrDescarga("el servidor retorno estado no OK"))
          [] outcome = "200" -> Continue(p, "temp")
    /\ UNCHANGED <<printers, files, req, loc>>

\* downloadFile: client.Get and the status check (main.go:382-391).
DownloadGet(p) ==
    /\ pc[p] = "get"
    /\ cnt' = [cnt EXCEPT ![p].get = @ + 1]
    /\ \E outcome \in {"failed", "not200", "200"} :
        CASE outcome = "failed" -> PrintReturn(p, ErrDescarga("Get: connection failed"))
          [] outcome = "not200" -> PrintReturn(p, ErrDescarga("el servidor retorno estado no OK"))
          [] outcome = "200" -> Continue(p, "temp")
    /\ UNCHANGED <<printers, files, req, loc>>

\* downloadFile: os.CreateTemp makes a file under a name not in use
\* (main.go:393-396).
DownloadCreateTemp(p) ==
    /\ pc[p] = "temp"
    /\ cnt' = [cnt EXCEPT ![p].temp = @ + 1]
    /\ \/ /\ PrintReturn(p, ErrDescarga("CreateTemp failed"))
          /\ UNCHANGED <<files, loc>>
       \/ \E f \in FileNames \ files :
            /\ files' = files \cup {f}
            /\ loc' = [loc EXCEPT ![p].created = f]
            /\ Continue(p, "copy")
    /\ UNCHANGED <<printers, req>>

\* downloadFile: io.Copy of the body into the file; on an error the function
\* returns "" and the error, the file stays (main.go:399-404).
DownloadCopy(p) ==
    /\ pc[p] = "copy"
    /\ \/ /\ PrintReturn(p, ErrDescarga("Copy failed"))
          /\ UNCHANGED loc
       \/ /\ loc' = [loc EXCEPT ![p].filePath = loc[p].created]
          /\ Continue(p, "print")
    /\ UNCHANGED <<printers, files, req, cnt>>

\* PrintFile with the removal on the success path only: a failed print
\* returns at once.
PrintFileReturnsOnError(p) ==
    /\ pc[p] = "print"
    /\ cnt' = [cnt EXCEPT ![p].print = @ + 1]
    /\ \/ /\ loc' = [loc EXCEPT ![p].printed = "ok"]
          /\ Continue(p, "remove")
       \/ /\ loc' = [loc EXCEPT ![p].printed = "failed"]
          /\ PrintReturn(p, ErrImprimir)
    /\ UNCHANGED <<printers, files, req>>

\* PrintPDFFromURL: DocumentPrinter.PrintFile runs the print tool; the
\* deferred function runs next whatever the outcome (main.go:352-360).
PrintFile(p) ==
    /\ pc[p] = "print"
    /\ cnt' = [cnt EXCEPT ![p].print = @ + 1]
    /\ \E outcome \in {"ok", "failed"} : loc' = [loc EXCEPT ![p].printed = outcome]
    /\ Continue(p, "remove")
    /\ UNCHANGED <<printers, files, req>>

\* RemoveTemp returning the error of os.Remove instead of logging it.
RemoveTempPropagates(p) ==
    /\ pc[p] = "remove"
    /\ \/ /\ loc[p].filePath \in files
          /\ files' = files \ {loc[p].filePath}
          /\ cnt' = [cnt EXCEPT ![p].remove = @ + 1]
          /\ PrintReturn(p, IF loc[p].printed = "failed" THEN ErrImprimir ELSE Nil)
       \/ /\ files' = files
          /\ cnt' = [cnt EXCEPT ![p].remove = @ + 1]
          /\ PrintReturn(p, [kind |-> "RemoveError",
                             msg |-> <<"Error al eliminar archivo temporal">>])
    /\ UNCHANGED <<printers, req, loc>>

\* PrintPDFFromURL: the deferred os.Remove(filePath), whose error is logged,
\* and the return of the call (main.go:352-361).
RemoveTemp(p) ==
    /\ pc[p] = "remove"
    /\ \/ /\ loc[p].filePath \in files
          /\ files' = files \ {loc[p].filePath}
          /\ cnt' = [cnt EXCEPT ![p].remove = @ + 1]
       \/ /\ files' = files
          /\ cnt' = [cnt EXCEPT ![p].remove = @ + 1, ![p].removeLog = @ + 1]
    /\ PrintReturn(p, IF loc[p].printed = "failed" THEN ErrImprimir ELSE Nil)
    /\ UNCHANGED <<printers, req, loc>>

\* ------------------------------------------------------------ /open-box

\* OpenDrawerHandler up to its call of OpenDrawer (main.go:486-513).
OpenDrawerHandler(p) ==
    /\ Free(p)
    /\ \E method \in Methods :
        IF method # "POST"
        THEN Reject(p, "drawer", <<>>, <<>>,
                    WriteErrorJSON(405, "Metodo HTTP no permitido", Nil))
        ELSE \E json \in BOOLEAN :
            IF ~json
            THEN Reject(p, "drawer", <<>>, <<>>,
                        WriteErrorJSON(400, "Solicitud JSON invalida", ErrJSON))
            ELSE \E printer \in RequestPrinters \cup {<<>>} :
                IF printer = <<>>
                THEN Reject(p, "drawer", <<>>, printer,
                            WriteErrorJSON(400, "No se especifico la impresora", Nil))
                ELSE Accept(p, "drawer", <<>>, printer, "dverify")

\* OpenDrawerHandler after OpenDrawer returned err (main.go:513-519).
DrawerReturn(p, err) ==
    /\ pc' = [pc EXCEPT ![p] = "done"]
    /\ ret' = [ret EXCEPT ![p] = err]
    /\ resp' = [resp EXCEPT ![p] = Append(@,
                    IF err # Nil
                    THEN WriteErrorJSON(500, "Error al abrir el cajon", err)
                    ELSE WriteJSON(200, [message |-> MsgDrawer]))]

\* ValidateDrawer without the existence check.
ValidateDrawerUnchecked(answer, printerName) == Nil

\* The check of OpenDrawer before the drawer command (main.go:366-372).
ValidateDrawer(answer, printerName) ==
    IF answer = "error" THEN Wrap("error al verificar la impresora: ", ErrListing)
    ELSE IF answer = "false" THEN ErrNoExiste(printerName)
    ELSE Nil

\* DefaultPrinterService.OpenDrawer: the existence check.
DrawerValidate(p) ==
    /\ pc[p] = "dverify"
    /\ \E run \in {"ok", "fail"} :
        LET answer == ExistsAnswer(run, req[p].printer)
            err == ValidateDrawer(answer, req[p].printer)
        IN  /\ cnt' = [cnt EXCEPT ![p].enum = @ + 1]
            /\ loc' = [loc EXCEPT ![p].exists = answer]
            /\ IF err # Nil THEN DrawerReturn(p, err) ELSE Continue(p, "drawer")
    /\ UNCHANGED <<printers, files, req>>

\* DefaultPrinterService.OpenDrawer: DrawerOpener.OpenDrawer runs the drawer
\* command (main.go:374-377).
DrawerCommand(p) ==
    /\ pc[p] = "drawer"
    /\ cnt' = [cnt EXCEPT ![p].drawer = @ + 1]
    /\ \E outcome \in {"ok", "failed"} :
        DrawerReturn(p, IF outcome = "failed" THEN ErrCajon ELSE Nil)
    /\ UNCHANGED <<printers, files, req, loc>>

\* -------------------------------------------------------- /list-printers

\* ListPrintersHandler: GetPrinters runs the enumeration command and parses
\* each line it printed (main.go:310-327, 432-445).
ListPrintersHandler(p) ==
    /\ Free(p)
    /\ req' = [req EXCEPT ![p] = [op |-> "list", url |-> <<>>, printer |-> <<>>]]
    /\ pc' = [pc EXCEPT ![p] = "done"]
    /\ \E run \in {"ok", "fail"} :
        IF run = "fail"
        THEN LET err == Wrap("error al listar impresoras: ", ErrPowerShell)
             IN  /\ ret' = [ret EXCEPT ![p] = err]
                 /\ loc' = [loc EXCEPT ![p] = NoLocals]
                 /\ cnt' = [cnt EXCEPT ![p] = [NoEffects EXCEPT !.enum = 1]]
                 /\ resp' = [resp EXCEPT ![p] =
                        <<WriteErrorJSON(500, "Error al listar las impresoras", err)>>]
        ELSE LET got == GetPrinters(ListPrinters(CommandOutput(printers)))
             IN  /\ ret' = [ret EXCEPT ![p] = Nil]
                 /\ loc' = [loc EXCEPT ![p] = [NoLocals EXCEPT !.listed = got.printers]]
                 /\ cnt' = [cnt EXCEPT ![p] =
                        [NoEffects EXCEPT !.enum = 1, !.parseLog = got.logged]]
                 /\ resp' = [resp EXCEPT ![p] =
                        <<WriteJSON(200, [printers |-> got.printers])>>]
    /\ UNCHANGED <<printers, files>>

\* ------------------------------------------------------- specification

\* One /print or /open-box request after another, each handled to its end
\* by one worker: what a call does depends on its own request, on the
\* host's printers and on the temp directory only.
Worker(p) ==
    \/ PrintHandler(p)
    \/ PrintValidate(p)
    \/ DownloadGet(p)
    \/ DownloadCreateTemp(p)
    \/ DownloadCopy(p)
    \/ PrintFile(p)
    \/ RemoveTemp(p)
    \/ OpenDrawerHandler(p)
    \/ DrawerValidate(p)
    \/ DrawerCommand(p)

Next == Worker(1)

Spec == Init /\ [][Next]_vars

\* One /list-printers request after another, on hosts with more kinds of
\* printers.
NextList == ListPrintersHandler(1)

SpecList == InitList /\ [][NextList]_vars

\* Concurrent /print requests: the server runs each request in a goroutine
\* of its own, and the steps of the requests interleave. The requests have
\* passed the checks of PrintHandler and carry a URL that passes the URL
\* checks; the host has no printer or printers named HP.
ConcPrinters == {r \in HostPrinters : r.Name = HP}

ConcURLs == {u \in RequestURLs : ValidateURL(u) = Nil}

InitConc == Start(ConcPrinters)

\* PrintHandler calling PrintPDFFromURL for a decoded request (main.go:476).
PrintCall(p) ==
    /\ Free(p)
    /\ \E url \in ConcURLs : Accept(p, "print", url, HP, "verify")

PrintWorker(p) ==
    \/ PrintCall(p)
    \/ PrintValidate(p)
    \/ DownloadGet(p)
    \/ DownloadCreateTemp(p)
    \/ DownloadCopy(p)
    \/ PrintFile(p)
    \/ RemoveTemp(p)

NextConc == \E p \in Procs : PrintWorker(p)

SpecConc == InitConc /\ [][NextConc]_vars

\* ------------------------------------------------------------ properties

\* Worker p has answered a request of kind op.
Answered(p, op) == pc[p] = "done" /\ req[p].op = op

\* The text "la impresora '<name>' no existe".
NoExisteText(name) == <<"la impresora '">> \o name \o <<"' no existe">>

\* Some printer of the host has exactly this name.
Installed(name) == \E i \in 1..Len(printers) : printers[i].Name = name

\* An absolute http or https URL: a scheme "http" or "https" (in any case)
\* before the first ':', and no white space anywhere.
AbsoluteHTTP(u) ==
    LET i == Index(u, <<":">>)
    IN  /\ i > 1
        /\ ToLower(SubSeq(u, 1, i - 1)) \in {SchemeHTTP, SchemeHTTPS}
        /\ \A k \in 1..Len(u) : u[k] \notin Space

\* C1: a PrintPDFFromURL call whose PrinterExists answered false makes no
\* download and no PrintFile call, at any moment after the answer, and
\* returns "la impresora '<printer>' no existe", whatever the URL.
C1_UnknownPrinterBeforeFetch ==
    \A p \in Procs :
        (req[p].op = "print" /\ loc[p].exists = "false") =>
            /\ cnt[p].get = 0
            /\ cnt[p].temp = 0
            /\ cnt[p].print = 0
            /\ pc[p] = "done"
            /\ ret[p].msg = NoExisteText(req[p].printer)

\* C1 happens: an unknown printer with a URL that would pass the URL checks.
C1_Witness ==
    \E p \in Procs :
        /\ Answered(p, "print")
        /\ loc[p].exists = "false"
        /\ AbsoluteHTTP(req[p].url)

\* C2 as stated: after a successful download the temporary file is gone
\* when the call returns, whether PrintFile succeeded or failed.
C2_TempFileGone ==
    \A p \in Procs :
        (Answered(p, "print") /\ loc[p].filePath # 0) => loc[p].filePath \notin files

\* C2 amended: after a successful download, os.Remove of the file has been
\* called once when the call returns, whether PrintFile succeeded or failed,
\* and the file is gone unless that os.Remove failed (which is logged).
C2_TempFileRemoveAttempted ==
    \A p \in Procs :
        (Answered(p, "print") /\ loc[p].filePath # 0) =>
            /\ loc[p].printed \in {"ok", "failed"}
            /\ cnt[p].remove = 1
            /\ (loc[p].filePath \in files) = (cnt[p].removeLog = 1)

\* C2 happens: PrintFile failed and the file was removed.
C2_Witness ==
    \E p \in Procs :
        /\ Answered(p, "print")
        /\ loc[p].filePath # 0
        /\ loc[p].printed = "failed"
        /\ loc[p].filePath \notin files

\* C3: PrinterExists(X) is true exactly when some printer of the
\* enumeration has the Name X; no other field and no longer name counts.
C3_ExactNameMatch ==
    \A p \in Procs :
        loc[p].exists \in {"true", "false"} =>
            ((loc[p].exists = "true") <=> Installed(req[p].printer))

\* C4: a PrintPDFFromURL call whose URL is not an absolute http(s) URL never
\* downloads, creates no file and prints nothing; it fails in the checks
\* before the download: with a URL error once the printer was found, with
\* the error of the existence check otherwise.
C4_BadURLNeverFetched ==
    \A p \in Procs :
        (req[p].op = "print" /\ loc[p].exists # "none" /\ ~AbsoluteHTTP(req[p].url)) =>
            /\ cnt[p].get = 0
            /\ cnt[p].temp = 0
            /\ cnt[p].print = 0
            /\ loc[p].created = 0
            /\ pc[p] = "done"
            /\ ret[p].kind \in {"InvalidURL", "UnsupportedScheme",
                                "UnknownPrinter", "EnumerationError"}
            /\ (loc[p].exists = "true" =>
                    ret[p].kind \in {"InvalidURL", "UnsupportedScheme"})
            /\ Len(resp[p]) = 1
            /\ resp[p][1].status # 200

\* C4 happens: the printer was found and the URL is file:///etc/passwd.
C4_Witness ==
    \E p \in Procs :
        /\ Answered(p, "print")
        /\ loc[p].exists = "true"
        /\ HasPrefix(req[p].url, <<"f","i","l","e",":">>)
        /\ ret[p].kind = "UnsupportedScheme"

\* C5: the drawer command runs only after PrinterExists answered true in
\* the same OpenDrawer call; when it answered false or failed, the call
\* fails and the drawer command is not run.
C5_DrawerOnlyAfterExists ==
    \A p \in Procs :
        /\ (cnt[p].drawer > 0 \/ pc[p] = "drawer") =>
                (req[p].op = "drawer" /\ loc[p].exists = "true")
        /\ (req[p].op = "drawer" /\ loc[p].exists \in {"false", "error"}) =>
                /\ pc[p] = "done"
                /\ ret[p] \notin {Nil, Pending}
                /\ cnt[p].drawer = 0
                /\ resp[p][1].status = 500

\* C5 happens: the existence check answered false and the call failed.
C5_Witness ==
    \E p \in Procs :
        /\ Answered(p, "drawer")
        /\ loc[p].exists = "false"
        /\ cnt[p].enum = 1

\* The line the enumeration prints for the i-th printer of the host.
Line(i) == FormatPrinter(printers[i])

\* The tokens of a line, each as the pair of positions of the ';' (or line
\* ends) around it.
Cuts(line) == {0, Len(line) + 1} \cup {k \in 1..Len(line) : line[k] = ";"}

Tokens(line) ==
    {t \in Cuts(line) \X Cuts(line) :
        t[1] < t[2] /\ \A c \in Cuts(line) : ~(t[1] < c /\ c < t[2])}

EqualsIn(line, t) == {k \in (t[1] + 1)..(t[2] - 1) : line[k] = "="}

\* A line is well-formed when each of its tokens holds an '='.
WellFormed(line) == \A t \in Tokens(line) : EqualsIn(line, t) # {}

FirstEquals(line, t) ==
    CHOOSE k \in EqualsIn(line, t) : \A j \in EqualsIn(line, t) : k <= j

KeyOf(line, t) == SubSeq(line, t[1] + 1, FirstEquals(line, t) - 1)

ValueOf(line, t) == SubSeq(line, FirstEquals(line, t) + 1, t[2] - 1)

\* m is the record of a well-formed line: its keys are the tokens' texts
\* before their first '=', each with the text after it (the last token of a
\* key decides).
RecordOf(line, m) ==
    /\ DOMAIN m = {KeyOf(line, t) : t \in Tokens(line)}
    /\ \A t \in Tokens(line) :
        (\A u \in Tokens(line) : KeyOf(line, u) = KeyOf(line, t) => u[1] <= t[1])
            => m[KeyOf(line, t)] = ValueOf(line, t)

\* C6: when the enumeration succeeds, GetPrinters returns one record per
\* well-formed line, in the order of the lines, split at the first '=' of
\* each token; it logs one parse error per malformed line and returns no
\* error.
C6_ListingSkipsMalformed ==
    \A p \in Procs :
        Answered(p, "list") =>
            LET wf == {i \in 1..Len(printers) : WellFormed(Line(i))}
                rank(i) == Cardinality({j \in wf : j <= i})
                got == loc[p].listed
            IN  /\ ret[p].kind \in {"nil", "EnumerationError"}
                /\ ret[p] = Nil =>
                    /\ Len(got) = Cardinality(wf)
                    /\ cnt[p].parseLog = Len(printers) - Cardinality(wf)
                    /\ \A i \in wf : RecordOf(Line(i), got[rank(i)])
                    /\ resp[p] = <<[status |-> 200, body |-> [printers |-> got]]>>

\* C6 happens: a malformed line comes first and a well-formed one after it.
C6_Witness ==
    \E p \in Procs :
        /\ Answered(p, "list")
        /\ ret[p] = Nil
        /\ Len(printers) = 2
        /\ ~WellFormed(Line(1))
        /\ WellFormed(Line(2))
        /\ Len(loc[p].listed) = 1

\* A request was refused for an unknown printer or a bad URL.
RefusedByService(p) ==
    /\ pc[p] = "done"
    /\ req[p].op \in {"print", "drawer"}
    /\ ret[p].kind \in {"UnknownPrinter", "InvalidURL", "UnsupportedScheme"}

\* A request was refused by its handler for an empty field.
RefusedForEmptyField(p) ==
    /\ pc[p] = "done"
    /\ req[p].op \in {"print", "drawer"}
    /\ ret[p] = Pending
    /\ resp[p][1].status = 400
    /\ DOMAIN resp[p][1].body = {"error"}

\* C7 as stated: when a validation error is returned, no process has been
\* started for the request.
C7_NoProcessBeforeValidationError ==
    \A p \in Procs :
        (RefusedByService(p) \/ RefusedForEmptyField(p)) =>
            cnt[p].enum + cnt[p].print + cnt[p].drawer = 0

\* C7 amended: a request with an empty field is refused with no process
\* started; an unknown printer or a bad URL is refused after one process,
\* the printer enumeration of the existence check, and before any download,
\* print tool or drawer command.
C7_ValidationBeforeFetchAndDispatch ==
    \A p \in Procs :
        /\ RefusedByService(p) => cnt[p] = [NoEffects EXCEPT !.enum = 1]
        /\ (req[p].op \in {"print", "drawer"} /\ req[p].printer = <<>>) =>
                (pc[p] = "done" /\ cnt[p] = NoEffects /\ resp[p][1].status \in {400, 405})
        /\ (req[p].op = "print" /\ req[p].url = <<>>) =>
                (pc[p] = "done" /\ cnt[p] = NoEffects /\ resp[p][1].status \in {400, 405})

\* C7 happens: a /print request refused for a URL that does not parse.
C7_Witness ==
    \E p \in Procs :
        /\ RefusedByService(p)
        /\ req[p].op = "print"
        /\ ret[p].kind = "InvalidURL"

\* C8: after a download that failed once its temporary file was created, the
\* file is gone when the call returns.
C8_NoTempFileAfterFetchFailure ==
    \A p \in Procs :
        (Answered(p, "print") /\ loc[p].created # 0 /\ loc[p].filePath = 0) =>
            loc[p].created \notin files

\* C9: the result of PrintPDFFromURL is decided by PrintFile alone, whether
\* os.Remove fails or not; os.Remove is called once after a successful
\* download and not at all otherwise, and its failure is logged once.
C9_ResultIgnoresRemoval ==
    \A p \in Procs :
        /\ cnt[p].remove <= 1
        /\ cnt[p].removeLog <= cnt[p].remove
        /\ Answered(p, "print") =>
            /\ (loc[p].filePath = 0) = (cnt[p].remove = 0)
            /\ loc[p].printed = "failed" =>
                    (ret[p].kind = "PrintError" /\ resp[p][1].status = 500)
            /\ loc[p].printed = "ok" =>
                    (ret[p] = Nil /\ resp[p] = <<[status |-> 200,
                                                  body |-> [message |-> MsgPrinted]]>>)

\* C9 happens: PrintFile failed and os.Remove failed too.
C9_Witness ==
    \E p \in Procs :
        /\ Answered(p, "print")
        /\ loc[p].printed = "failed"
        /\ cnt[p].removeLog = 1

\* C10 as stated: /open-box for a printer the existence check does not find
\* is answered 500 or 400 with "error" being "la impresora '<P>' no existe".
C10_ErrorIsNoExiste ==
    \A p \in Procs :
        (Answered(p, "drawer") /\ loc[p].exists = "false") =>
            /\ Len(resp[p]) = 1
            /\ resp[p][1].status \in {400, 500}
            /\ resp[p][1].body.error = NoExisteText(req[p].printer)

\* C10 amended: it is answered 500 with "error" being "Error al abrir el
\* cajon" and "details" being "la impresora '<P>' no existe".
C10_DetailsIsNoExiste ==
    \A p \in Procs :
        (Answered(p, "drawer") /\ loc[p].exists = "false") =>
            /\ Len(resp[p]) = 1
            /\ resp[p][1].status = 500
            /\ DOMAIN resp[p][1].body = {"error", "details"}
            /\ resp[p][1].body.error = <<"Error al abrir el cajon">>
            /\ resp[p][1].body.details = NoExisteText(req[p].printer)

\* C10 happens: /open-box for Ghost, which the existence check does not find.
C10_Witness ==
    \E p \in Procs :
        /\ Answered(p, "drawer")
        /\ loc[p].exists = "false"
        /\ req[p].printer = Ghost

\* C11: POST /print is answered 400 whenever a field is missing or invalid
\* (an empty url, an empty printer, a body that is not JSON, a url that is not
\* an absolute http or https URL), and 500 for a failed download or a failed
\* print only.
C11_InvalidFieldAnswered400 ==
    \A p \in Procs :
        (Answered(p, "print") /\ Len(resp[p]) = 1 /\ resp[p][1].status # 405) =>
            /\ (req[p].url = <<>> \/ req[p].printer = <<>>) => resp[p][1].status = 400
            /\ (req[p].url # <<>> /\ req[p].printer # <<>> /\ loc[p].exists = "true"
                    /\ ~AbsoluteHTTP(req[p].url)) => resp[p][1].status = 400
            /\ resp[p][1].status = 500 => ret[p].kind \in {"FetchError", "PrintError"}

\* C14: within one PrintPDFFromURL call each external step happens at most
\* once and in the order existence check, download, PrintFile, os.Remove: a
\* download is attempted only after an existence check that answered true,
\* PrintFile is called only after a download that returned a file, os.Remove
\* only after PrintFile, and once a step has failed the only step that follows
\* is os.Remove after a failed PrintFile.
C14_StepsOnceInOrder ==
    \A p \in Procs :
        req[p].op = "print" =>
            /\ cnt[p].enum <= 1 /\ cnt[p].get <= 1 /\ cnt[p].temp <= 1
            /\ cnt[p].print <= 1 /\ cnt[p].remove <= 1
            /\ cnt[p].get > 0 => (cnt[p].enum = 1 /\ loc[p].exists = "true")
            /\ cnt[p].temp > 0 => cnt[p].get = 1
            /\ cnt[p].print > 0 => (cnt[p].temp = 1 /\ loc[p].filePath # 0)
            /\ cnt[p].remove > 0 => cnt[p].print = 1
            /\ loc[p].exists \in {"error", "false"} =>
                    (pc[p] = "done" /\ cnt[p] = [NoEffects EXCEPT !.enum = 1])
            /\ ret[p].kind \in {"InvalidURL", "UnsupportedScheme"} =>
                    (pc[p] = "done" /\ cnt[p] = [NoEffects EXCEPT !.enum = 1])
            /\ ret[p].kind = "FetchError" =>
                    (pc[p] = "done" /\ cnt[p].print = 0 /\ cnt[p].remove = 0
                     /\ loc[p].filePath = 0)
            /\ loc[p].printed = "failed" => pc[p] \in {"remove", "done"}

\* C14 happens: a call whose PrintFile failed has returned, with one
\* existence check, one download, one PrintFile and one os.Remove.
C14_Witness ==
    \E p \in Procs :
        /\ Answered(p, "print")
        /\ loc[p].printed = "failed"
        /\ cnt[p].enum = 1 /\ cnt[p].get = 1 /\ cnt[p].print = 1 /\ cnt[p].remove = 1

\* The body and status PrintHandler writes for a printed document.
PrintedResponse == [status |-> 200, body |-> [message |-> MsgPrinted]]

\* C13: POST /print with a url and a printer is answered 200 with the message
\* "PDF enviado a la impresora exitosamente." exactly when the printer is
\* installed, the url is an absolute http or https URL, the download answered
\* 200 and was stored, and the print tool exited 0; otherwise the status is
\* not 200 and the body has an "error"; one response is written per request.
C13_PrintedIffAllStepsSucceed ==
    \A p \in Procs :
        (Answered(p, "print") /\ req[p].url # <<>> /\ req[p].printer # <<>>) =>
            LET allSucceed == /\ Installed(req[p].printer)
                              /\ AbsoluteHTTP(req[p].url)
                              /\ loc[p].filePath # 0
                              /\ loc[p].printed = "ok"
            IN  /\ Len(resp[p]) = 1
                /\ (resp[p][1] = PrintedResponse) = allSucceed
                /\ ~allSucceed => /\ resp[p][1].status # 200
                                  /\ "error" \in DOMAIN resp[p][1].body

\* Worker p is between os.CreateTemp and its return, with a file it made.
OwnsFile(p) == pc[p] \in {"copy", "print", "remove"} /\ loc[p].created # 0

\* No two calls in flight own the same temporary file.
DistinctOwners ==
    \A p, q \in Procs :
        (p # q /\ OwnsFile(p) /\ OwnsFile(q)) => loc[p].created # loc[q].created

\* A call hands to PrintFile and to os.Remove the file it created itself.
OwnFileOnly ==
    \A p \in Procs :
        /\ loc[p].filePath # 0 => loc[p].filePath = loc[p].created
        /\ pc[p] \in {"print", "remove"} => loc[p].filePath # 0

\* The file a call is about to print has not been deleted.
PrintsExistingFile ==
    \A p \in Procs : pc[p] = "print" => loc[p].filePath \in files

\* C12: for concurrent PrintPDFFromURL calls under every interleaving, with
\* os.CreateTemp returning a name not in use: no two calls in flight own the
\* same temporary file, each call prints and deletes the file it created
\* itself, no call prints a file that was already deleted, and once every
\* call has returned no temporary file remains.
C12_ConcurrentTempFiles ==
    /\ DistinctOwners
    /\ OwnFileOnly
    /\ PrintsExistingFile
    /\ (\A p \in Procs : Free(p)) => files = {}

====
